---- MODULE Spec2Model ----
(***************************************************************************)
(* Model of the export-and-build test harness of mbed-os:                  *)
(*   tools/test/export/build_test.py   (do_queue, Reader, ExportBuildTest, *)
(*                                      main)                              *)
(*   tools/export/makefile/__init__.py (Makefile.build)                    *)
(*                                                                         *)
(* The sources are Python 2 (print statements, `from Queue import Queue`), *)
(* so IOError and OSError are distinct exception classes: open()/read()    *)
(* raise IOError, os.remove()/os.rename()/rmtree()/Popen() raise OSError.  *)
(*                                                                         *)
(* Reader overrides Thread.start (not Thread.run): `each.start()` in       *)
(* do_queue therefore runs the worker loop in the calling thread and       *)
(* returns when the queue is empty.  No second thread is ever created, so  *)
(* the whole program is one sequential process whose position is pc.       *)
(***************************************************************************)
EXTENDS Integers, Sequences, FiniteSets, TLC

(***************************************************************************)
(* Bounds and input domains                                                *)
(***************************************************************************)
MaxTests == 2

Mcus == {"K64F", "LPC1768"}
Ides == {"make_gcc_arm", "uvision"}
Programs == {"MBED_BLINKY"}

\* exit codes the build subprocess may end with: the keys of ret_dict,
\* the gaps 12..14, codes above 16 and a negative code (killed by a signal)
RetCodes == (-2) .. 18

(***************************************************************************)
(* Program constants                                                       *)
(***************************************************************************)
NumThreads == 20

EXPORT_DIR == "/BUILD/export"

None == "None"

(***************************************************************************)
(* String and path helpers (os.path on POSIX)                              *)
(***************************************************************************)
StartsWith(s, pre) ==
    /\ Len(pre) <= Len(s)
    /\ SubSeq(s, 1, Len(pre)) = pre

EndsWith(s, suf) ==
    /\ Len(suf) <= Len(s)
    /\ SubSeq(s, Len(s) - Len(suf) + 1, Len(s)) = suf

Contains(s, sub) ==
    \E i \in 1 .. (Len(s) - Len(sub) + 1) : SubSeq(s, i, i + Len(sub) - 1) = sub

RECURSIVE LastIndexOf(_, _, _)
LastIndexOf(s, ch, i) ==
    IF i = 0 THEN 0
    ELSE IF SubSeq(s, i, i) = ch THEN i
    ELSE LastIndexOf(s, ch, i - 1)

join(a, b) ==
    IF StartsWith(b, "/") THEN b
    ELSE IF a = "" \/ EndsWith(a, "/") THEN a \o b
    ELSE a \o "/" \o b

dirname(p) ==
    LET i == LastIndexOf(p, "/", Len(p))
    IN  IF i = 0 THEN ""
        ELSE IF i = 1 THEN "/"
        ELSE SubSeq(p, 1, i - 1)

splitext(p) ==
    LET dot == LastIndexOf(p, ".", Len(p))
        sep == LastIndexOf(p, "/", Len(p))
    IN  IF dot > sep + 1 THEN SubSeq(p, 1, dot - 1) ELSE p

\* path p lies inside directory d
Under(p, d) == StartsWith(p, d \o "/")

(***************************************************************************)
(* TestCase records, as main() builds them                                 *)
(***************************************************************************)
MakeTestCase(mcu, ide, name) ==
    [mcu  |-> mcu,
     ide  |-> ide,
     name |-> name,
     log  |-> IF ide # "uvision" THEN "build_log.txt"
              ELSE join("build", "build_log.txt"),
     zip  |-> Contains(ide, "make")]

TestCases == {MakeTestCase(m, i, n) : m \in Mcus, i \in Ides, n \in Programs}

TestLists == UNION {[1 .. n -> TestCases] : n \in 0 .. MaxTests}

\* variant: a blank instead of the tab before the program name
FormatResult_Blank(test_case) ==
    test_case.mcu \o "::" \o test_case.ide \o " " \o test_case.name

FormatResult(test_case) ==
    test_case.mcu \o "::" \o test_case.ide \o "\t" \o test_case.name

\* variant: the toolchain is left out of the name
NameStr_NoToolchain(test_case) ==
    test_case.mcu \o "_" \o test_case.name

NameStr(test_case) ==
    test_case.mcu \o "_" \o test_case.ide \o "_" \o test_case.name

(***************************************************************************)
(* Exception classification at the three try blocks                        *)
(***************************************************************************)
\* variant: the handler names tools.utils.NotSupportedException instead
ExportCatches_WrongClass(exc) == exc = "NotSupportedException"

\* perform_exports: `except TargetNotSupportedException`
ExportCatches(exc) == exc = "TargetNotSupportedException"

\* variant: `except Exception`
BuildCatches_All(exc) == TRUE

\* batch_tests: `except FailedBuildException`
BuildCatches(exc) == exc = "FailedBuildException"

\* handle_log: `except IOError`
HandleLogCatches(exc) == exc = "IOError"

(***************************************************************************)
(* Project Exporter (tools.project.export): external collaborator.         *)
(* Outcome of one export call: a handle, the unsupported signal, or any    *)
(* other exception.                                                        *)
(***************************************************************************)
ExportSignals == {"ok", "TargetNotSupportedException", "Exception"}

Export(test_case, zip_proj, export_path) ==
    [cls             |-> IF Contains(test_case.ide, "make") THEN "Makefile"
                         ELSE "Uvision",
     project_name    |-> test_case.name,
     export_dir      |-> export_path,
     zipfile         |-> IF zip_proj = None THEN None
                         ELSE join(export_path, zip_proj),
     generated_files |-> <<join(export_path, "project")>>]

\* files left on disk by export(..., clean=True, zip_proj=...): the export
\* directory is emptied, then the archive (if any) is written
ExportFiles(fs, exporter) ==
    LET kept == {p \in DOMAIN fs : ~Under(p, exporter.export_dir)}
        old  == [p \in kept |-> fs[p]]
    IN  IF exporter.zipfile = None THEN old
        ELSE (exporter.zipfile :> "zip") @@ old

(***************************************************************************)
(* State                                                                   *)
(***************************************************************************)
VARIABLES
    pc,                \* position of the (single) thread of control
    tests,             \* self.tests
    clean,             \* options.clean
    q,                 \* do_queue: items of the Queue q (indices into tests)
    unfinished_tasks,  \* do_queue: q.unfinished_tasks, what q.join() waits on
    threadIdx,         \* do_queue: Readers already started (second for loop)
    test,              \* Reader.start: the item taken by get(), 0 if none
    counter,           \* self.counter
    total,             \* self.total
    successes,         \* self.successes
    failures,          \* self.failures
    skips,             \* self.skips
    build_queue,       \* self.build_queue: <<exporter, index of test case>>
    build,             \* batch_tests: the unit taken from build_queue
    status,            \* what exporter.build() returned or raised (try block)
    dirs,              \* file system: existing directories
    files,             \* file system: path -> content
    printed,           \* main: print_results was called
    exit_status,       \* main: argument of sys.exit
    \* history variables (not program state)
    invoked,           \* per test case: outcomes of its perform_exports calls
    enqueued,          \* per test case: puts on build_queue
    put_order,         \* test cases in the order of their puts on build_queue
    built,             \* per test case: calls of exporter.build()
    relocated,         \* per test case: paths passed to handle_log
    cleaned,           \* per test case: calls of rmtree(export_dir)
    extracted,         \* per test case: archive extractions
    recorded,          \* per test case: result lists it was appended to
    signal,            \* where the last external call was made, what it raised
    fatal              \* the exception that left batch_tests, or NoSignal

vars == <<pc, tests, clean, q, unfinished_tasks, threadIdx, test, counter,
          total, successes, failures, skips, build_queue, build, status,
          dirs, files, printed, exit_status, invoked, enqueued, put_order,
          built,
          relocated, cleaned, extracted, recorded, signal, fatal>>

prog == <<tests, clean>>
queue == <<q, unfinished_tasks, threadIdx, test>>
results == <<successes, failures, skips>>
fsys == <<dirs, files>>
mainv == <<printed, exit_status>>
hist == <<invoked, enqueued, put_order, built, relocated, cleaned, extracted,
          recorded>>

N == Len(tests)

NoBuild == <<>>

NoSignal == [where |-> None, exc |-> None]

\* sys.exit not called yet
NoExit == -1

Raised(where, exc) == [where |-> where, exc |-> exc]

NoStatus ==
    [ran |-> FALSE, cls |-> None, project_name |-> None, ret_code |-> 0,
     raises |-> None, text |-> ""]

Bump(f, i) == [f EXCEPT ![i] = @ + 1]

\* variant: the update is lost, the old value is written back
Incr_Lost(n) == n

\* self.counter += 1
Incr(n) == n + 1

Note(f, i, x) == [f EXCEPT ![i] = Append(@, x)]

(***************************************************************************)
(* ExportBuildTest.__init__, called from main with the test matrix         *)
(***************************************************************************)
Init ==
    /\ tests \in TestLists
    /\ clean \in BOOLEAN
    /\ pc = "batch_tests"
    /\ q = <<>>
    /\ unfinished_tasks = 0
    /\ threadIdx = 0
    /\ test = 0
    /\ counter = 0
    /\ total = Len(tests)
    /\ successes = <<>>
    /\ failures = <<>>
    /\ skips = <<>>
    /\ build_queue = <<>>
    /\ build = NoBuild
    /\ status = NoStatus
    /\ dirs = {EXPORT_DIR}
    /\ files = <<>>
    /\ printed = FALSE
    /\ exit_status = NoExit
    /\ invoked = [i \in 1 .. Len(tests) |-> <<>>]
    /\ enqueued = [i \in 1 .. Len(tests) |-> 0]
    /\ put_order = <<>>
    /\ built = [i \in 1 .. Len(tests) |-> 0]
    /\ relocated = [i \in 1 .. Len(tests) |-> <<>>]
    /\ cleaned = [i \in 1 .. Len(tests) |-> 0]
    /\ extracted = [i \in 1 .. Len(tests) |-> <<>>]
    /\ recorded = [i \in 1 .. Len(tests) |-> <<>>]
    /\ signal = NoSignal
    /\ fatal = NoSignal

(***************************************************************************)
(* do_queue(Reader, self.perform_exports, self.tests)                      *)
(***************************************************************************)
\* variant: the put loop stops one item short
QueuePutAll_DropLast(interable) == [i \in 1 .. (Len(interable) - 1) |-> i]

\* q = Queue(); threads = [...]; for thing in interable: q.put(thing)
QueuePutAll(interable) == [i \in 1 .. Len(interable) |-> i]

DoQueuePut ==
    /\ pc = "batch_tests"
    /\ q' = QueuePutAll(tests)
    /\ unfinished_tasks' = Len(q')
    /\ threadIdx' = 0
    /\ pc' = "threads"
    /\ UNCHANGED <<prog, test, counter, total, results, build_queue, build,
                   status, fsys, mainv, hist, signal, fatal>>

\* variant: the item is read but left in the queue
QueueGet_Peek(queue_items) ==
    [item |-> Head(queue_items), rest |-> queue_items]

\* variant: a LIFO queue, the newest item is taken
QueueGet_Newest(queue_items) ==
    [item |-> queue_items[Len(queue_items)],
     rest |-> SubSeq(queue_items, 1, Len(queue_items) - 1)]

\* Queue.get(): the oldest item, and what stays in the queue
QueueGet(queue_items) ==
    [item |-> Head(queue_items), rest |-> Tail(queue_items)]

\* variant: the loop stops while one item is left
ReaderLoops_OffByOne(queue_items) == Len(queue_items) > 1

\* Reader.start: `while not self.queue.empty()`
ReaderLoops(queue_items) == queue_items # <<>>

\* Reader.start: test = self.queue.get()
ReaderGet ==
    /\ pc = "threads"
    /\ threadIdx < NumThreads
    /\ ReaderLoops(q)
    /\ test' = QueueGet(q).item
    /\ q' = QueueGet(q).rest
    /\ pc' = "operation"
    /\ UNCHANGED <<prog, unfinished_tasks, threadIdx, counter, total, results,
                   build_queue, build, status, fsys, mainv, hist, signal,
                   fatal>>

\* Reader.start returns (queue empty); do_queue starts the next Reader
ReaderReturn ==
    /\ pc = "threads"
    /\ threadIdx < NumThreads
    /\ ~ReaderLoops(q)
    /\ threadIdx' = threadIdx + 1
    /\ UNCHANGED <<pc, prog, q, unfinished_tasks, test, counter, total,
                   results, build_queue, build, status, fsys, mainv, hist,
                   signal, fatal>>

\* ExportBuildTest.perform_exports(test_case), the operation of the Readers
PerformExports ==
    /\ pc = "operation"
    /\ counter' = Incr(counter)
    /\ \E sig \in ExportSignals :
        LET test_case == tests[test]
            name_str  == NameStr(test_case)
            zip_name  == IF test_case.zip THEN name_str \o ".zip" ELSE None
            exported  == Export(test_case, zip_name, join(EXPORT_DIR, name_str))
            exporter  == [exported EXCEPT !.generated_files =
                              Append(@, join(join(EXPORT_DIR, name_str),
                                             test_case.log))]
        IN  /\ invoked' = Note(invoked, test, sig)
            /\ signal' = Raised("perform_exports",
                                IF sig = "ok" THEN None ELSE sig)
            /\ IF sig = "ok"
               THEN /\ build_queue' = Append(build_queue, <<exporter, test>>)
                    /\ enqueued' = Bump(enqueued, test)
                    /\ put_order' = Append(put_order, test)
                    /\ dirs' = dirs \cup {exporter.export_dir}
                    /\ files' = ExportFiles(files, exporter)
                    /\ pc' = "task_done"
                    /\ UNCHANGED <<skips, recorded, fatal>>
               ELSE IF ExportCatches(sig)
               THEN /\ skips' = Append(skips, FormatResult(test_case))
                    /\ recorded' = Note(recorded, test, "skips")
                    /\ pc' = "task_done"
                    /\ UNCHANGED <<build_queue, enqueued, put_order, fsys,
                                   fatal>>
               ELSE /\ fatal' = Raised("perform_exports", sig)
                    /\ pc' = "aborted"
                    /\ UNCHANGED <<build_queue, enqueued, put_order, fsys,
                                   skips, recorded>>
    /\ UNCHANGED <<prog, queue, total, successes, failures, build, status,
                   mainv, built, relocated, cleaned, extracted>>

\* Reader.start: self.queue.task_done()
TaskDone ==
    /\ pc = "task_done"
    /\ unfinished_tasks' = unfinished_tasks - 1
    /\ test' = 0
    /\ pc' = "threads"
    /\ UNCHANGED <<prog, q, threadIdx, counter, total, results, build_queue,
                   build, status, fsys, mainv, hist, signal, fatal>>

\* variant: do_queue returns without waiting for the Readers or the queue
JoinReturns_NoWait(started, unfinished) == TRUE

\* do_queue: q.join() returns
JoinReturns(started, unfinished) == started = NumThreads /\ unfinished = 0

\* q.join() returns to batch_tests, which resets the counters
QueueJoin ==
    /\ pc = "threads"
    /\ JoinReturns(threadIdx, unfinished_tasks)
    /\ counter' = 0
    /\ total' = Len(build_queue)
    /\ pc' = "build_loop"
    /\ UNCHANGED <<prog, queue, results, build_queue, build, status, fsys,
                   mainv, hist, signal, fatal>>

(***************************************************************************)
(* Makefile.build (tools/export/makefile/__init__.py)                      *)
(***************************************************************************)
ret_dict ==
    (0 :> "Normal exit with no errors.") @@
    (1 :> "General purpose error if no other explicit error is known.") @@
    (2 :> "There was an error in the makefile.") @@
    (3 :> "A shell line had a non-zero status.") @@
    (4 :> "Make ran out of memory.") @@
    (5 :> "The program specified on the shell line was not executable.") @@
    (6 :> "The shell line was longer than the command processor allowed.") @@
    (7 :> "The program specified on the shell line could not be found.") @@
    (8 :> "There was not enough memory to execute the shell line.") @@
    (9 :> "The shell line produced a device error.") @@
    (10 :> "The program specified on the shell line became resident.") @@
    (11 :> "The shell line producedan unknown error.") @@
    (15 :> "There was a problem with the memory miser.") @@
    (16 :> "The user hit CTRL+C or CTRL+BREAK..")

\* variant: dict.get(key), the default dropped
DictGet_NoDefault(d, key, default) ==
    IF key \in DOMAIN d THEN d[key] ELSE "None"

\* dict.get(key, default)
DictGet(d, key, default) == IF key \in DOMAIN d THEN d[key] ELSE default

\* the directory make is run in
MakefileProjFile(self) ==
    IF self.zipfile # None THEN splitext(self.zipfile)
    ELSE join(self.export_dir, "Makefile")

\* variant: the marker test is `if ret_code:`
MakefileLog_Swapped(out, err, ret_code) ==
    "==========OUT==========\n" \o out \o
    "==========ERR==========\n" \o err \o
    (IF ret_code # 0 THEN "SUCCESS" ELSE "FAILURE")

\* the text written to build_log.txt
MakefileLog(out, err, ret_code) ==
    "==========OUT==========\n" \o out \o
    "==========ERR==========\n" \o err \o
    (IF ret_code = 0 THEN "SUCCESS" ELSE "FAILURE")

\* variant: the success text is the table entry alone
MakefileStatus_NoName(project_name, ret_code) ==
    IF ret_code # 0
    THEN [raises |-> "FailedBuildException",
          text   |-> "Project: " \o project_name \o
                     " build failed with the status: " \o
                     DictGet(ret_dict, ret_code, "Unknown")]
    ELSE [raises |-> None,
          text   |-> "Project build succeeded with the status: " \o
                     ret_dict[0]]

\* what build() raises (None: it returns) and the text returned or carried
MakefileStatus(project_name, ret_code) ==
    IF ret_code # 0
    THEN [raises |-> "FailedBuildException",
          text   |-> "Project: " \o project_name \o
                     " build failed with the status: " \o
                     DictGet(ret_dict, ret_code, "Unknown")]
    ELSE [raises |-> None,
          text   |-> "Project: " \o project_name \o
                     " build succeeded with the status: " \o ret_dict[0]]

\* one call of build(): the subprocess ended with ret_code
MakefileBuild(self, out, err, ret_code) ==
    [cmd      |-> <<"make", "-C", MakefileProjFile(self), "-j">>,
     log      |-> join(self.export_dir, "build_log.txt"),
     log_text |-> MakefileLog(out, err, ret_code),
     status   |-> MakefileStatus(self.project_name, ret_code)]

(***************************************************************************)
(* Uvision.build: not part of the sources at hand; modelled from the       *)
(* exporter contract (a log with a status marker, a build-failure signal   *)
(* on non-zero exit)                                                       *)
(***************************************************************************)
UvisionBuild(self, out, err, ret_code) ==
    [cmd      |-> <<"UV4", "-r", "-j0">>,
     log      |-> join(join(self.export_dir, "build"), "build_log.txt"),
     log_text |-> out \o err \o
                  (IF ret_code = 0 THEN "SUCCESS" ELSE "FAILURE"),
     status   |-> IF ret_code # 0
                  THEN [raises |-> "FailedBuildException",
                        text   |-> "Project: " \o self.project_name \o
                                   " build failed"]
                  ELSE [raises |-> None,
                        text   |-> "Project: " \o self.project_name \o
                                   " build succeeded"]]

ExporterBuild(self, out, err, ret_code) ==
    IF self.cls = "Makefile" THEN MakefileBuild(self, out, err, ret_code)
    ELSE UvisionBuild(self, out, err, ret_code)

\* captured output of the build subprocess
Stdout == "make: Entering directory\n"

Stderr == ""

\* how the subprocess can end: an exit code, or it cannot be started at all
\* (the build tool is missing: Popen raises OSError)
ProcessOutcomes ==
    {[started |-> TRUE, ret_code |-> c] : c \in RetCodes} \cup
    {[started |-> FALSE, ret_code |-> 0]}

(***************************************************************************)
(* ExportBuildTest.batch_tests: the build loop                             *)
(***************************************************************************)
BuildLoops(queue_items) == queue_items # <<>>

\* build = self.build_queue.get(); self.counter += 1
BuildGet ==
    /\ pc = "build_loop"
    /\ BuildLoops(build_queue)
    /\ build' = QueueGet(build_queue).item
    /\ build_queue' = QueueGet(build_queue).rest
    /\ counter' = Incr(counter)
    /\ status' = NoStatus
    /\ pc' = IF tests[Head(build_queue)[2]].zip THEN "extract" ELSE "build"
    /\ UNCHANGED <<prog, queue, total, results, fsys, mainv, hist, signal,
                   fatal>>

\* if test_case.zip: ZipFile(exporter.zipfile).extractall(EXPORT_DIR/name_str)
ExtractAll ==
    /\ pc = "extract"
    /\ LET exporter  == build[1]
           test_case == tests[build[2]]
           target    == join(EXPORT_DIR, NameStr(test_case))
       IN  \E bad \in BOOLEAN :
            LET exc == IF exporter.zipfile \notin DOMAIN files THEN "IOError"
                       ELSE IF bad THEN "BadZipfile"
                       ELSE None
            IN  /\ signal' = Raised("extractall", exc)
                /\ IF exc = None
                   THEN /\ dirs' = dirs \cup {target}
                        /\ extracted' = Note(extracted, build[2], target)
                        /\ pc' = "build"
                        /\ UNCHANGED <<results, recorded, fatal>>
                   ELSE IF BuildCatches(exc)
                   THEN /\ failures' = Append(failures, FormatResult(test_case))
                        /\ recorded' = Note(recorded, build[2], "failures")
                        /\ pc' = "handle_log"
                        /\ UNCHANGED <<successes, skips, dirs, extracted,
                                       fatal>>
                   ELSE /\ fatal' = Raised("extractall", exc)
                        /\ pc' = "aborted"
                        /\ UNCHANGED <<results, recorded, dirs, extracted>>
    /\ UNCHANGED <<prog, queue, counter, total, build_queue, build, status,
                   files, mainv, invoked, enqueued, put_order,
                   built, relocated,
                   cleaned>>

\* exporter.build() and the except / else clauses around it
InvokeBuild ==
    /\ pc = "build"
    /\ built' = Bump(built, build[2])
    /\ LET exporter  == build[1]
           test_case == tests[build[2]]
       IN  \E proc \in ProcessOutcomes :
            LET run == ExporterBuild(exporter, Stdout, Stderr, proc.ret_code)
                exc == IF ~proc.started THEN "OSError"
                       ELSE IF exporter.export_dir \notin dirs THEN "IOError"
                       ELSE run.status.raises
            IN  /\ signal' = Raised("build", exc)
                /\ IF ~proc.started \/ exporter.export_dir \notin dirs
                   THEN UNCHANGED <<files, status>>
                   ELSE /\ files' = (run.log :> run.log_text) @@ files
                        /\ status' = [ran          |-> TRUE,
                                       cls          |-> exporter.cls,
                                       project_name |-> exporter.project_name,
                                       ret_code     |-> proc.ret_code,
                                       raises       |-> run.status.raises,
                                       text         |-> run.status.text]
                /\ IF exc = None
                   THEN /\ successes' = Append(successes,
                                               FormatResult(test_case))
                        /\ recorded' = Note(recorded, build[2], "successes")
                        /\ pc' = "handle_log"
                        /\ UNCHANGED <<failures, skips, fatal>>
                   ELSE IF BuildCatches(exc)
                   THEN /\ failures' = Append(failures, FormatResult(test_case))
                        /\ recorded' = Note(recorded, build[2], "failures")
                        /\ pc' = "handle_log"
                        /\ UNCHANGED <<successes, skips, fatal>>
                   ELSE /\ fatal' = Raised("build", exc)
                        /\ pc' = "aborted"
                        /\ UNCHANGED <<results, recorded>>
    /\ UNCHANGED <<prog, queue, counter, total, build_queue, build, dirs,
                   mainv, invoked, enqueued, put_order,
                   relocated, cleaned, extracted>>

(***************************************************************************)
(* ExportBuildTest.handle_log                                              *)
(***************************************************************************)
\* what the environment can make fail in one call of handle_log
LogFaults == {None, "open", "remove", "rename"}

\* destination of the relocated log
LogName(log) == join(EXPORT_DIR, dirname(log) \o "_log.txt")

\* the body of the try block: the exception it ends with (None: it runs to
\* the end) and the files it leaves
HandleLogTry(fs, log, fault) ==
    LET log_name == LogName(log)
        removed  == [p \in DOMAIN fs \ {log_name} |-> fs[p]]
        renamed  == (log_name :> fs[log]) @@
                    [p \in DOMAIN fs \ {log, log_name} |-> fs[p]]
    IN  IF log \notin DOMAIN fs \/ fault = "open"
        THEN [exc |-> "IOError", files |-> fs]
        ELSE IF log_name \in DOMAIN fs /\ fault = "remove"
        THEN [exc |-> "OSError", files |-> fs]
        ELSE IF fault = "rename"
        THEN [exc |-> "OSError", files |-> removed]
        ELSE [exc |-> None, files |-> renamed]

\* variant: the clean-up is skipped after a failed build
Cleans_OnSuccessOnly(clean_option, outcome) ==
    clean_option /\ outcome = <<"successes">>

\* `if clean:` after handle_log; outcome is where the unit was recorded
Cleans(clean_option, outcome) == clean_option

\* variant: generated_files[0], the project file
LogArgument_First(exporter) == exporter.generated_files[1]

\* the argument of handle_log: exporter.generated_files[-1]
LogArgument(exporter) ==
    exporter.generated_files[Len(exporter.generated_files)]

\* self.handle_log(exporter.generated_files[-1])
HandleLog ==
    /\ pc = "handle_log"
    /\ LET exporter == build[1]
           log      == LogArgument(exporter)
       IN  /\ relocated' = Note(relocated, build[2], log)
           /\ \E fault \in LogFaults :
               LET try == HandleLogTry(files, log, fault)
               IN  /\ fault = "remove" => LogName(log) \in DOMAIN files
                   /\ signal' = Raised("handle_log", try.exc)
                   /\ files' = try.files
                   /\ IF try.exc = None \/ HandleLogCatches(try.exc)
                      THEN /\ pc' = IF Cleans(clean, recorded[build[2]])
                                    THEN "rmtree" ELSE "build_loop"
                           /\ build' = IF Cleans(clean, recorded[build[2]])
                                       THEN build ELSE NoBuild
                           /\ UNCHANGED fatal
                      ELSE /\ fatal' = Raised("handle_log", try.exc)
                           /\ pc' = "aborted"
                           /\ UNCHANGED build
    /\ status' = NoStatus
    /\ UNCHANGED <<prog, queue, counter, total, results, build_queue, dirs,
                   mainv, invoked, enqueued, put_order,
                   built, cleaned, extracted,
                   recorded>>

\* if clean: rmtree(exporter.export_dir)
Rmtree ==
    /\ pc = "rmtree"
    /\ cleaned' = Bump(cleaned, build[2])
    /\ LET export_dir == build[1].export_dir
       IN  \E fails \in BOOLEAN :
            IF export_dir \notin dirs \/ fails
            THEN /\ signal' = Raised("rmtree", "OSError")
                 /\ fatal' = Raised("rmtree", "OSError")
                 /\ pc' = "aborted"
                 /\ UNCHANGED <<build, fsys>>
            ELSE /\ signal' = Raised("rmtree", None)
                 /\ dirs' = {d \in dirs : d # export_dir /\ ~Under(d, export_dir)}
                 /\ files' = [p \in {f \in DOMAIN files : ~Under(f, export_dir)}
                                 |-> files[p]]
                 /\ build' = NoBuild
                 /\ pc' = "build_loop"
                 /\ UNCHANGED fatal
    /\ UNCHANGED <<prog, queue, counter, total, results, build_queue, status,
                   mainv, invoked, enqueued, put_order,
                   built, relocated, extracted,
                   recorded>>

\* `while not self.build_queue.empty()` ends: batch_tests returns to main
BatchTestsReturn ==
    /\ pc = "build_loop"
    /\ ~BuildLoops(build_queue)
    /\ pc' = "print_results"
    /\ UNCHANGED <<prog, queue, counter, total, results, build_queue, build,
                   status, fsys, mainv, hist, signal, fatal>>

(***************************************************************************)
(* main: the report                                                        *)
(***************************************************************************)
\* print_results(test.successes, test.failures, test.skips)
PrintResults ==
    /\ pc = "print_results"
    /\ printed' = TRUE
    /\ pc' = "exit"
    /\ UNCHANGED <<prog, queue, counter, total, results, build_queue, build,
                   status, fsys, exit_status, hist, signal, fatal>>

\* variant: the skipped TestCases are counted as well
ExitStatus_WithSkips(succ, fail, skip) == Len(fail) + Len(skip)

\* the argument of sys.exit
ExitStatus(succ, fail, skip) == Len(fail)

\* sys.exit(len(test.failures))
SysExit ==
    /\ pc = "exit"
    /\ exit_status' = ExitStatus(successes, failures, skips)
    /\ pc' = "exited"
    /\ UNCHANGED <<prog, queue, counter, total, results, build_queue, build,
                   status, fsys, printed, hist, signal, fatal>>

Next ==
    \/ DoQueuePut
    \/ ReaderGet
    \/ ReaderReturn
    \/ PerformExports
    \/ TaskDone
    \/ QueueJoin
    \/ BuildGet
    \/ ExtractAll
    \/ InvokeBuild
    \/ HandleLog
    \/ Rmtree
    \/ BatchTestsReturn
    \/ PrintResults
    \/ SysExit

Spec == Init /\ [][Next]_vars

\* do_queue on its own, from the call in batch_tests to the return of
\* q.join(); the one thread of the program keeps running while it has a step
DoQueueNext ==
    \/ DoQueuePut
    \/ ReaderGet
    \/ ReaderReturn
    \/ PerformExports
    \/ TaskDone
    \/ QueueJoin

DoQueueSpec == Init /\ [][DoQueueNext]_vars /\ WF_vars(DoQueueNext)

TypeOK ==
    /\ pc \in {"batch_tests", "threads", "operation", "task_done",
               "build_loop", "extract", "build", "handle_log", "rmtree",
               "print_results", "exit", "exited", "aborted"}
    /\ threadIdx \in 0 .. NumThreads
    /\ unfinished_tasks \in 0 .. N
    /\ test \in 0 .. N
    /\ counter \in 0 .. N
    /\ total \in 0 .. N

(***************************************************************************)
(* Properties                                                              *)
(***************************************************************************)
Range(s) == {s[k] : k \in 1 .. Len(s)}

BuildPcs == {"build_loop", "extract", "build", "handle_log", "rmtree"}

ReportPcs == {"print_results", "exit", "exited"}

\* number of units of test case i waiting on build_queue
InBuildQueue(i) ==
    Cardinality({k \in 1 .. Len(build_queue) : build_queue[k][2] = i})

\* the summary string of test case i, written out
Summary(i) ==
    tests[i].mcu \o "::" \o tests[i].ide \o "\t" \o tests[i].name

\* C1: when batch_tests has returned, the three result lists together hold
\* as many entries as TestCases were submitted.
C1_ResultsSumToSubmitted ==
    pc \in ReportPcs =>
        Len(successes) + Len(failures) + Len(skips) = Len(tests)

C1_Witness ==
    /\ pc = "print_results"
    /\ Len(tests) = 2
    /\ Len(skips) = 1
    /\ Len(failures) = 1

\* C2: a TestCase whose export raised TargetNotSupportedException is in
\* skips and in no other list; no unit was enqueued for it and neither the
\* build, nor the log relocation, nor the clean-up ran for it.
C2_UnsupportedIsSkippedOnly ==
    \A i \in 1 .. N :
        "TargetNotSupportedException" \in Range(invoked[i]) =>
            /\ recorded[i] = <<"skips">>
            /\ Summary(i) \in Range(skips)
            /\ enqueued[i] = 0
            /\ InBuildQueue(i) = 0
            /\ build # NoBuild => build[2] # i
            /\ built[i] = 0
            /\ extracted[i] = <<>>
            /\ relocated[i] = <<>>
            /\ cleaned[i] = 0

C2_Witness ==
    /\ pc = "exited"
    /\ \E i \in 1 .. N : invoked[i] = <<"TargetNotSupportedException">>
    /\ \E j \in 1 .. N : recorded[j] = <<"successes">>

\* C3: do_queue invokes the operation once for every item: never twice for
\* an item, and once all Readers have been started every item has had its
\* invocation.
C3_EachItemExactlyOnce ==
    /\ \A i \in 1 .. N : Len(invoked[i]) <= 1
    /\ (pc = "threads" /\ threadIdx = NumThreads) \/ pc \in BuildPcs \cup ReportPcs
          => \A i \in 1 .. N : Len(invoked[i]) = 1

C3_Witness ==
    /\ pc = "threads"
    /\ threadIdx = NumThreads
    /\ Len(tests) = 2
    /\ \A i \in 1 .. N : Len(invoked[i]) = 1

\* C4: the build phase starts only after the export phase is complete:
\* while an item is queued, being exported or not yet marked done, nothing
\* has been dequeued or built, and once batch_tests is past do_queue every
\* TestCase has been exported.
C4_BuildAfterExport ==
    /\ (q # <<>> \/ unfinished_tasks > 0 \/ test # 0) =>
            /\ pc \notin BuildPcs \cup ReportPcs
            /\ build = NoBuild
            /\ \A i \in 1 .. N : built[i] = 0 /\ enqueued[i] = InBuildQueue(i)
    /\ pc \in BuildPcs \cup ReportPcs =>
            \A i \in 1 .. N : Len(invoked[i]) = 1

C4_Witness ==
    /\ pc = "build"
    /\ Len(tests) = 2
    /\ Len(build_queue) = 1
    /\ q = <<>>
    /\ unfinished_tasks = 0

\* C5: a unit is enqueued at most once and built at most once, a unit that
\* was built is not on the queue again, a TestCase has at most one entry in
\* the result lists, and when batch_tests has returned every enqueued unit
\* has been built.
C5_EachUnitBuiltOnce ==
    \A i \in 1 .. N :
        /\ enqueued[i] <= 1
        /\ built[i] <= enqueued[i]
        /\ InBuildQueue(i) <= enqueued[i]
        /\ built[i] = 1 => InBuildQueue(i) = 0
        /\ Len(recorded[i]) <= 1
        /\ pc \in ReportPcs => built[i] = enqueued[i] /\ InBuildQueue(i) = 0

C5_Witness ==
    /\ pc = "print_results"
    /\ Len(tests) = 2
    /\ \A i \in 1 .. N : built[i] = 1
    /\ \E i \in 1 .. N : recorded[i] = <<"failures">>

\* C6: a build that returns appends device::toolchain<TAB>program to
\* successes and leaves failures alone; a build that raises
\* FailedBuildException appends the same string to failures and leaves
\* successes alone.
C6_BuildOutcomeRecorded ==
    [][(pc = "build" /\ status'.ran) =>
          LET text == Summary(build[2])
          IN  /\ pc' = "handle_log"
              /\ skips' = skips
              /\ status'.raises = None =>
                    /\ successes' = Append(successes, text)
                    /\ failures' = failures
              /\ status'.raises = "FailedBuildException" =>
                    /\ failures' = Append(failures, text)
                    /\ successes' = successes
              /\ status'.raises \in {None, "FailedBuildException"}]_vars

C6_Witness ==
    /\ pc = "handle_log"
    /\ successes = <<"K64F::uvision\tMBED_BLINKY">>
    /\ failures = <<"K64F::make_gcc_arm\tMBED_BLINKY">>

\* C7: Makefile.build with exit code 0 does not raise and returns the
\* success text, which contains the project name.
C7_ExitZeroReturnsSuccess ==
    (status.ran /\ status.cls = "Makefile" /\ status.ret_code = 0) =>
        /\ status.raises = None
        /\ signal.where = "build" => signal.exc = None
        /\ Contains(status.text, status.project_name)
        /\ Contains(status.text, "build succeeded")

C7_Witness ==
    /\ pc = "handle_log"
    /\ status.ran
    /\ status.cls = "Makefile"
    /\ status.ret_code = 0
    /\ status.text = "Project: MBED_BLINKY build succeeded with the status: "
                     \o "Normal exit with no errors."

\* C8: Makefile.build with a non-zero exit code raises FailedBuildException
\* with a text that contains the project name and the table's description
\* of the code, or "Unknown" for a code the table does not have.
C8_NonZeroRaisesWithDescription ==
    (status.ran /\ status.cls = "Makefile" /\ status.ret_code # 0) =>
        /\ status.raises = "FailedBuildException"
        /\ Contains(status.text, status.project_name)
        /\ IF status.ret_code \in DOMAIN ret_dict
           THEN Contains(status.text, ret_dict[status.ret_code])
           ELSE Contains(status.text, "Unknown")

C8_Witness ==
    /\ status.ran
    /\ status.cls = "Makefile"
    /\ status.ret_code = 13
    /\ status.text = "Project: MBED_BLINKY build failed with the status: Unknown"

\* C9: whatever fails inside handle_log (reading the log, removing an old
\* destination, renaming), handle_log returns and batch_tests goes on.
C9_LogHandlingNeverFatal ==
    (signal.where = "handle_log" /\ signal.exc # None) =>
        /\ pc # "aborted"
        /\ fatal = NoSignal

\* C10: an exception other than TargetNotSupportedException from an export,
\* or other than FailedBuildException from the extraction or the build,
\* leaves batch_tests: the TestCase is in no result list, nothing is
\* exported, built or printed afterwards.
C10_OtherExceptionsAbort ==
    /\ [](LET uncaught ==
               \/ /\ signal.where = "perform_exports"
                  /\ signal.exc \notin {None, "TargetNotSupportedException"}
               \/ /\ signal.where \in {"extractall", "build"}
                  /\ signal.exc \notin {None, "FailedBuildException"}
              case == IF signal.where = "perform_exports" THEN test
                      ELSE build[2]
          IN  uncaught =>
                /\ pc = "aborted"
                /\ fatal = signal
                /\ recorded[case] = <<>>
                /\ ~printed)
    /\ [][fatal # NoSignal =>
            /\ invoked' = invoked
            /\ built' = built
            /\ results' = results
            /\ printed' = printed
            /\ pc' = "aborted"]_vars

C10_Witness ==
    /\ pc = "aborted"
    /\ fatal = Raised("build", "OSError")
    /\ Len(successes) = 1
    /\ build_queue = <<>>

\* C11: at exit the status handed to sys.exit is the number of entries in
\* failures, hence 0 exactly when no TestCase failed its build, whatever
\* the number of skipped TestCases.
C11_ExitStatusIsFailureCount ==
    pc = "exited" =>
        LET failed == {i \in 1 .. N : "failures" \in Range(recorded[i])}
        IN  /\ exit_status = Len(failures)
            /\ exit_status = Cardinality(failed)
            /\ exit_status = 0 <=> failed = {}

C11_Witness ==
    /\ pc = "exited"
    /\ exit_status = 1
    /\ Len(skips) = 1

\* C12: export operations of two TestCases can be in progress at the same
\* time: while one export is running and items are left in the queue,
\* another of the 20 workers can take the next item.
C12_ExportsCanOverlap ==
    (pc = "operation" /\ ReaderLoops(q) /\ threadIdx + 1 < NumThreads) =>
        ENABLED ReaderGet

\* all calls of perform_exports made so far
ExportCalls == UNION {{<<i, k>> : k \in 1 .. Len(invoked[i])} : i \in 1 .. N}

\* C13: in the export phase no counter increment and no append to skips is
\* lost: the counter equals the number of exports made, it equals the
\* number of TestCases when all are exported, and skips has one entry per
\* unsupported TestCase.
C13_NoLostUpdate ==
    /\ (pc \in {"threads", "operation", "task_done"}
           \/ fatal.where = "perform_exports")
          => counter = Cardinality(ExportCalls)
    /\ (pc = "threads" /\ threadIdx = NumThreads) => counter = Len(tests)
    /\ Len(skips) = Cardinality({c \in ExportCalls :
                        invoked[c[1]][c[2]] = "TargetNotSupportedException"})

C13_Witness ==
    /\ pc = "threads"
    /\ threadIdx = NumThreads
    /\ counter = 2
    /\ Len(skips) = 1

\* C14: do_queue terminates: every get() finds an item and is matched by
\* one task_done(), the queue is empty and no task unfinished when q.join()
\* is reached, and a run that has entered the worker loops gets to the
\* build loop unless an exception of the operation ends it.
C14_DoQueueTerminates ==
    /\ [](pc \in {"threads", "operation", "task_done"} =>
            /\ unfinished_tasks =
                  Len(q) + (IF pc \in {"operation", "task_done"} THEN 1 ELSE 0)
            /\ pc \in {"operation", "task_done"} => test \in 1 .. N)
    /\ []((pc = "threads" /\ threadIdx = NumThreads) =>
            q = <<>> /\ unfinished_tasks = 0)
    /\ (pc = "threads") ~> (pc = "build_loop" \/ fatal # NoSignal)

C14_Witness ==
    /\ pc = "build_loop"
    /\ threadIdx = NumThreads
    /\ unfinished_tasks = 0
    /\ counter = 0
    /\ \A i \in 1 .. N : Len(invoked[i]) = 1
    /\ Len(tests) = 2

\* the build attempt, the log relocation and (with clean) the clean-up of
\* test case i are over
Finished(i) ==
    /\ built[i] = 1
    /\ Len(relocated[i]) = 1
    /\ clean => cleaned[i] = 1
    /\ build # NoBuild => build[2] # i

\* C15: units are built one at a time in the order of their puts: when the
\* build of a unit has begun, every unit put before it is finished, and a
\* unit that is begun and not finished is the one batch_tests holds.
C15_BuildsInPutOrder ==
    /\ \A a, b \in 1 .. Len(put_order) :
          (a < b /\ built[put_order[b]] >= 1) => Finished(put_order[a])
    /\ \A i \in 1 .. N :
          ((built[i] >= 1 \/ extracted[i] # <<>>) /\ ~Finished(i)) =>
              (build # NoBuild /\ build[2] = i)

C15_Witness ==
    /\ pc = "handle_log"
    /\ clean
    /\ Len(put_order) = 2
    /\ built[put_order[2]] = 1
    /\ cleaned[put_order[1]] = 1

\* the export directory and the expected log path of test case i, written
\* out
ExportDirOf(i) ==
    "/BUILD/export/" \o tests[i].mcu \o "_" \o tests[i].ide \o "_" \o
    tests[i].name

ExpectedLog(i) ==
    ExportDirOf(i) \o "/" \o
    (IF tests[i].ide = "uvision" THEN "build/build_log.txt"
     ELSE "build_log.txt")

\* C16: after a build attempt that ended in success or in
\* FailedBuildException, handle_log is run for that unit before the next
\* unit is taken, with the expected log path of the unit's own TestCase.
C16_LogRelocatedAfterEachBuild ==
    /\ \A k \in 1 .. Len(build_queue) :
          LET generated == build_queue[k][1].generated_files
          IN  generated[Len(generated)] = ExpectedLog(build_queue[k][2])
    /\ \A i \in 1 .. N :
        /\ relocated[i] \in {<<>>, <<ExpectedLog(i)>>}
        /\ relocated[i] # <<>> =>
              recorded[i] \in {<<"successes">>, <<"failures">>}
        /\ (recorded[i] \in {<<"successes">>, <<"failures">>}
              /\ ~(pc = "handle_log" /\ build[2] = i))
              => relocated[i] = <<ExpectedLog(i)>>

C16_Witness ==
    /\ pc = "build"
    /\ Len(tests) = 2
    /\ relocated[1] = <<"/BUILD/export/K64F_uvision_MBED_BLINKY/build/build_log.txt">>
    /\ recorded[1] = <<"failures">>
    /\ build[2] = 2

\* the loop iteration of test case i in batch_tests has run to its end
IterationOver(i) ==
    /\ recorded[i] \in {<<"successes">>, <<"failures">>}
    /\ relocated[i] # <<>>
    /\ build # NoBuild => build[2] # i

\* C17: rmtree(export_dir) is called for a unit exactly when clean is set:
\* with clean set, once for every unit whose build attempt and log
\* relocation are over, after a successful and after a failed build alike,
\* and the directory is gone; with clean not set, never, and every exported
\* directory is still there.
C17_CleanExactlyWhenSet ==
    \A i \in 1 .. N :
        /\ cleaned[i] <= 1
        /\ cleaned[i] = 1 => (clean /\ built[i] = 1 /\ relocated[i] # <<>>)
        /\ (clean /\ IterationOver(i)) =>
              (cleaned[i] = 1 /\ ExportDirOf(i) \notin dirs)
        /\ (~clean /\ enqueued[i] = 1) =>
              (cleaned[i] = 0 /\ ExportDirOf(i) \in dirs)

C17_Witness ==
    /\ pc = "print_results"
    /\ clean
    /\ Len(tests) = 2
    /\ \E i, j \in 1 .. N :
          /\ recorded[i] = <<"successes">>
          /\ recorded[j] = <<"failures">>
          /\ cleaned[i] = 1
          /\ cleaned[j] = 1
          /\ ExportDirOf(i) \notin dirs
          /\ ExportDirOf(j) \notin dirs

\* C18: a call of Makefile.build whose subprocess ended has written
\* build_log.txt in the export directory when it returns or raises; the log
\* ends with SUCCESS when the exit code is 0 and the call returned, with
\* FAILURE when the code is not 0 and the call raised FailedBuildException.
C18_LogMarkerMatchesOutcome ==
    (/\ signal.where = "build"
     /\ signal.exc # "OSError"
     /\ build[1].cls = "Makefile") =>
        LET log == ExportDirOf(build[2]) \o "/build_log.txt"
        IN  /\ status.ran
            /\ log \in DOMAIN files
            /\ Contains(files[log], "ERR")
            /\ status.ret_code = 0 =>
                  (EndsWith(files[log], "SUCCESS") /\ signal.exc = None)
            /\ status.ret_code # 0 =>
                  /\ EndsWith(files[log], "FAILURE")
                  /\ signal.exc = "FailedBuildException"

C18_Witness ==
    /\ pc = "handle_log"
    /\ signal = Raised("build", "FailedBuildException")
    /\ build[1].cls = "Makefile"
    /\ status.ret_code = 2
    /\ EndsWith(files["/BUILD/export/K64F_make_gcc_arm_MBED_BLINKY/build_log.txt"],
                "ERR==========\nFAILURE")

\* handle_log has been called twice with the same log, hence the same
\* destination
RelocatedTwice ==
    \E i, j \in 1 .. N :
        i # j /\ relocated[i] # <<>> /\ relocated[i] = relocated[j]

\* C19: a second handle_log for the same destination never raises; the old
\* destination is removed and the fresh log renamed into its place.
C19_SecondRelocationNeverRaises ==
    (signal.where = "handle_log" /\ RelocatedTwice) =>
        /\ fatal = NoSignal
        /\ signal.exc = None =>
              \E i \in 1 .. N :
                  /\ relocated[i] # <<>>
                  /\ LogName(relocated[i][1]) \in DOMAIN files
                  /\ relocated[i][1] \notin DOMAIN files

\* C20: when the build of a unit is called, the archive of a unit that
\* requests archiving has been extracted into EXPORT_DIR/mcu_ide_name, and
\* nothing is ever extracted for a unit that does not request it.
C20_ExtractBeforeBuild ==
    /\ \A i \in 1 .. N :
          /\ ~tests[i].zip => extracted[i] = <<>>
          /\ extracted[i] \in {<<>>, <<ExportDirOf(i)>>}
          /\ (tests[i].zip /\ built[i] >= 1) =>
                extracted[i] = <<ExportDirOf(i)>>
    /\ (pc = "build" /\ tests[build[2]].zip) =>
          (extracted[build[2]] # <<>> /\ ExportDirOf(build[2]) \in dirs)

C20_Witness ==
    /\ pc = "handle_log"
    /\ \E i, j \in 1 .. N :
          /\ tests[i].zip
          /\ built[i] = 1
          /\ extracted[i] = <<"/BUILD/export/K64F_make_gcc_arm_MBED_BLINKY">>
          /\ ~tests[j].zip
          /\ built[j] = 1
          /\ extracted[j] = <<>>

====
